---- MODULE Spec2Model ----
(***************************************************************************)
(* rainfall (src/rainfall/src/main.rs): read_measurements reads lines from *)
(* a stream, calculate_results computes the mean and the two band counts,  *)
(* write_output prints the report.  main runs the three in sequence.       *)
(*                                                                         *)
(* f64 values are modelled as extended rationals: NaN, +inf, -inf, or a    *)
(* finite n/d in lowest terms.  Finite arithmetic is exact (rounding is    *)
(* not modelled); the special values follow IEEE 754.  -0.0 is identified  *)
(* with 0.0: the program only compares and adds measurements, and          *)
(* 0.0 + -0.0 = 0.0, so the sign of a zero never reaches the output.       *)
(* A line of text is a sequence of one-character strings.                  *)
(***************************************************************************)
EXTENDS Integers, Sequences, FiniteSets

\* ------------------------------------------------------------------ bounds
\* Longest input stream (items delivered by lines.next() before None).
MaxLines == 3

\* ------------------------------------------------------------ f64 values
RECURSIVE GCD(_, _)
GCD(a, b) == IF b = 0 THEN a ELSE GCD(b, a % b)

Abs(n) == IF n < 0 THEN -n ELSE n

\* The finite value n/d (d > 0), in lowest terms.
Fin(n, d) ==
    LET g == GCD(Abs(n), d)
    IN  [k |-> "fin", n |-> n \div g, d |-> d \div g]

NaN == [k |-> "nan", n |-> 0, d |-> 1]
PosInf == [k |-> "inf", n |-> 1, d |-> 1]
NegInf == [k |-> "inf", n |-> -1, d |-> 1]
Zero == Fin(0, 1)

is_nan(x) == x.k = "nan"
IsFinite(x) == x.k = "fin"

\* -1, 0 or 1; of a value that is not NaN.
Sign(x) == IF x.n < 0 THEN -1 ELSE IF x.n > 0 THEN 1 ELSE 0

Neg(x) == [x EXCEPT !.n = -x.n]

\* a + b
Add(a, b) ==
    IF is_nan(a) \/ is_nan(b) THEN NaN
    ELSE IF a.k = "inf" /\ b.k = "inf" THEN (IF a.n = b.n THEN a ELSE NaN)
    ELSE IF a.k = "inf" THEN a
    ELSE IF b.k = "inf" THEN b
    ELSE Fin(a.n * b.d + b.n * a.d, a.d * b.d)

\* a - b
Sub(a, b) == Add(a, Neg(b))

\* a / b, for a divisor whose zero is +0.0 (a length cast to f64)
Div(a, b) ==
    IF is_nan(a) \/ is_nan(b) THEN NaN
    ELSE IF a.k = "inf" /\ b.k = "inf" THEN NaN
    ELSE IF a.k = "inf" THEN (IF Sign(b) < 0 THEN Neg(a) ELSE a)
    ELSE IF b.k = "inf" THEN Zero
    ELSE IF b.n = 0 THEN (IF a.n = 0 THEN NaN
                          ELSE IF a.n > 0 THEN PosInf ELSE NegInf)
    ELSE IF b.n > 0 THEN Fin(a.n * b.d, a.d * b.n)
    ELSE Fin(-(a.n * b.d), a.d * (-b.n))

\* a < b: false when either is NaN
Lt(a, b) ==
    IF is_nan(a) \/ is_nan(b) THEN FALSE
    ELSE IF a.k = "inf" THEN a.n < 0 /\ ~(b.k = "inf" /\ b.n < 0)
    ELSE IF b.k = "inf" THEN b.n > 0
    ELSE a.n * b.d < b.n * a.d

\* a <= b: false when either is NaN
Le(a, b) == ~is_nan(a) /\ ~is_nan(b) /\ ~Lt(b, a)

\* a >= b
Ge(a, b) == Le(b, a)

\* n as f64
FromUsize(n) == Fin(n, 1)

Five == Fin(5, 1)

\* --------------------------------------------- str::parse::<f64> (line 76)
DigitChars == <<"0", "1", "2", "3", "4", "5", "6", "7", "8", "9">>
UpperChars == <<"A", "E", "F", "I", "N", "T", "Y">>
LowerChars == <<"a", "e", "f", "i", "n", "t", "y">>

IsDigit(c) == \E i \in 1..Len(DigitChars) : DigitChars[i] = c
DigitVal(c) == (CHOOSE i \in 1..Len(DigitChars) : DigitChars[i] = c) - 1

\* ASCII lower case of the letters the grammar names.
LowerChar(c) ==
    IF \E i \in 1..Len(UpperChars) : UpperChars[i] = c
    THEN LowerChars[CHOOSE i \in 1..Len(UpperChars) : UpperChars[i] = c]
    ELSE c

ToLower(s) == [i \in 1..Len(s) |-> LowerChar(s[i])]

AllDigits(s) == \A i \in 1..Len(s) : IsDigit(s[i])

RECURSIVE DigitsValue(_)
DigitsValue(s) ==
    IF s = <<>> THEN 0
    ELSE 10 * DigitsValue(SubSeq(s, 1, Len(s) - 1)) + DigitVal(s[Len(s)])

RECURSIVE Pow10(_)
Pow10(n) == IF n = 0 THEN 1 ELSE 10 * Pow10(n - 1)

\* First index of c in s, 0 when there is none.
IndexOf(s, c) ==
    IF \E i \in 1..Len(s) : s[i] = c
    THEN CHOOSE i \in 1..Len(s) : s[i] = c /\ \A j \in 1..(i - 1) : s[j] # c
    ELSE 0

ParseError == [ok |-> FALSE, val |-> NaN]
ParseOk(v) == [ok |-> TRUE, val |-> v]

\* Number ::= ( Digit+ | Digit+ '.' Digit* | Digit* '.' Digit+ ) Exp?
\* Exp    ::= 'e' Sign? Digit+          (s is lower case and unsigned)
ParseNumber(s) ==
    LET e == IndexOf(s, "e")
        mant == IF e = 0 THEN s ELSE SubSeq(s, 1, e - 1)
        expo == IF e = 0 THEN <<>> ELSE SubSeq(s, e + 1, Len(s))
        dot == IndexOf(mant, ".")
        ip == IF dot = 0 THEN mant ELSE SubSeq(mant, 1, dot - 1)
        fp == IF dot = 0 THEN <<>> ELSE SubSeq(mant, dot + 1, Len(mant))
        esign == expo # <<>> /\ (expo[1] = "+" \/ expo[1] = "-")
        edigits == IF esign THEN Tail(expo) ELSE expo
        mantOk == AllDigits(ip) /\ AllDigits(fp) /\ Len(ip) + Len(fp) > 0
        expOk == e = 0 \/ (edigits # <<>> /\ AllDigits(edigits))
    IN  IF mantOk /\ expOk
        THEN LET ev == (IF esign /\ expo[1] = "-" THEN -1 ELSE 1)
                           * DigitsValue(edigits)
                 n == DigitsValue(ip \o fp)
                 scale == ev - Len(fp)
             IN  ParseOk(IF scale >= 0 THEN Fin(n * Pow10(scale), 1)
                                       ELSE Fin(n, Pow10(-scale)))
        ELSE ParseError

\* Float ::= Sign? ( 'inf' | 'infinity' | 'nan' | Number ), case-insensitive;
\* the whole line must match.
ParseF64(line) ==
    LET s == ToLower(line)
        signed == s # <<>> /\ (s[1] = "+" \/ s[1] = "-")
        neg == signed /\ s[1] = "-"
        body == IF signed THEN Tail(s) ELSE s
    IN  IF body = <<"i", "n", "f">>
           \/ body = <<"i", "n", "f", "i", "n", "i", "t", "y">>
        THEN ParseOk(IF neg THEN NegInf ELSE PosInf)
        ELSE IF body = <<"n", "a", "n">> THEN ParseOk(NaN)
        ELSE LET r == ParseNumber(body)
             IN  IF r.ok /\ neg THEN ParseOk(Neg(r.val)) ELSE r

\* ------------------------------------------------------------ the input
\* The line "999" (line 74).
Terminator == <<"9", "9", "9">>

\* Texts a line of the input may hold: the terminator, another spelling of
\* 999, measurements, a negative number, words, a blank line, leading and
\* trailing whitespace, two tokens, and the parser's spellings of infinity
\* and not-a-number.
LineTexts ==
    { Terminator,
      <<"9", ".", "9", "9", "e", "2">>,
      <<"0">>,
      <<"5">>,
      <<"1", "0">>,
      <<"-", "6">>,
      <<"s", "i", "x">>,
      <<>>,
      <<" ", "5">>,
      <<"5", " ">>,
      <<"3", " ", "4">>,
      <<"i", "n", "f">>,
      <<"N", "a", "N">> }

\* What lines.next() yields for one item of the stream: Some(Ok(line)) or
\* Some(Err(_)); past the last item it yields None.
OkLine(text) == [ok |-> TRUE, line |-> text]
IoErr == [ok |-> FALSE, line |-> <<>>]
Items == {OkLine(t) : t \in LineTexts} \cup {IoErr}

Streams == UNION {[1..n -> Items] : n \in 0..MaxLines}

\* ---------------------------------------------------------------- state
VARIABLES
    input,          \* the items of stdin, in order
    pos,            \* how many of them lines.next() has yielded
    measurements,   \* read_measurements' vector
    pc,             \* where main is: "read", "calc", "write", "done", "panicked"
    results,        \* <<>> until calculate_results returns, then <<Results>>
    out,            \* the write! calls that reached stdout, in order
    wfail,          \* whether a write to stdout returned Err
    exit            \* <<>> while running, then <<exit status>>

vars == <<input, pos, measurements, pc, results, out, wfail, exit>>

Init ==
    /\ input \in Streams
    /\ pos = 0
    /\ measurements = <<>>
    /\ pc = "read"
    /\ results = <<>>
    /\ out = <<>>
    /\ wfail = FALSE
    /\ exit = <<>>

\* ------------------------------------------------- read_measurements
\* Mutant: the terminator taken by value, line.parse() == Ok(999.0).
IsTerminatorByValue(line) == ParseF64(line) = ParseOk(Fin(999, 1))

\* line == "999"
IsTerminator(line) == line = Terminator

\* Mutant: f > 0.0 in place of f >= 0.0.
AcceptedPositive(line) ==
    LET r == ParseF64(line)
    IN  r.ok /\ Lt(Zero, r.val)

\* if let Ok(f) = line.parse() { if f >= 0.0 { ... } }
Accepted(line) ==
    LET r == ParseF64(line)
    IN  r.ok /\ Ge(r.val, Zero)

\* The vector after the loop body has run on line.
Push(ms, line) ==
    IF Accepted(line) THEN Append(ms, ParseF64(line).val) ELSE ms

\* Mutant: the loop body also prints a running mean after each line.
ReadLineStreaming ==
    /\ pc = "read"
    /\ pos < Len(input)
    /\ input[pos + 1].ok
    /\ ~IsTerminator(input[pos + 1].line)
    /\ pos' = pos + 1
    /\ measurements' = Push(measurements, input[pos + 1].line)
    /\ out' = Append(out, [fmt |-> "Mean rainfall: {} cm\n", arg |-> Zero])
    /\ UNCHANGED <<input, pc, results, wfail, exit>>

\* lines.next() is Some(Ok(line)), line is not "999": the loop body runs.
ReadLine ==
    /\ pc = "read"
    /\ pos < Len(input)
    /\ input[pos + 1].ok
    /\ ~IsTerminator(input[pos + 1].line)
    /\ pos' = pos + 1
    /\ measurements' = Push(measurements, input[pos + 1].line)
    /\ UNCHANGED <<input, pc, results, out, wfail, exit>>

\* lines.next() is Some(Ok("999")): break.
ReadTerminator ==
    /\ pc = "read"
    /\ pos < Len(input)
    /\ input[pos + 1].ok
    /\ IsTerminator(input[pos + 1].line)
    /\ pos' = pos + 1
    /\ pc' = "calc"
    /\ UNCHANGED <<input, measurements, results, out, wfail, exit>>

\* lines.next() is Some(Err(_)): the pattern Some(Ok(line)) does not match,
\* the while let ends and the vector is returned.
ReadErr ==
    /\ pc = "read"
    /\ pos < Len(input)
    /\ ~input[pos + 1].ok
    /\ pos' = pos + 1
    /\ pc' = "calc"
    /\ UNCHANGED <<input, measurements, results, out, wfail, exit>>

\* lines.next() is None: the while let ends and the vector is returned.
ReadEof ==
    /\ pc = "read"
    /\ pos = Len(input)
    /\ pc' = "calc"
    /\ UNCHANGED <<input, pos, measurements, results, out, wfail, exit>>

\* ------------------------------------------------- calculate_results
RECURSIVE Fold(_, _)
\* samples.iter().fold(acc, |a, b| a + *b)
Fold(acc, samples) ==
    IF samples = <<>> THEN acc
    ELSE Fold(Add(acc, Head(samples)), Tail(samples))

sum(samples) == Fold(Zero, samples)

\* Mutant: an empty slice has mean 0.0.
MeanOrZero(samples) ==
    IF samples = <<>> THEN Zero
    ELSE Div(sum(samples), FromUsize(Len(samples)))

mean(samples) == Div(sum(samples), FromUsize(Len(samples)))

\* Mutant: m - 5.0 < x in place of m - 5.0 <= x.
BelowFilterOpen(m, x) == Lt(Sub(m, Five), x) /\ Lt(x, m)

\* |&&x| m - 5.0 <= x && x < m
BelowFilter(m, x) == Le(Sub(m, Five), x) /\ Lt(x, m)

\* Mutant: m <= x in place of m < x.
AboveFilterFromMean(m, x) == Le(m, x) /\ Le(x, Add(m, Five))

\* |&&x| m < x && x <= m + 5.0
AboveFilter(m, x) == Lt(m, x) /\ Le(x, Add(m, Five))

calculate_results(fs) ==
    LET m == mean(fs)
        b == Len(SelectSeq(fs, LAMBDA x : BelowFilter(m, x)))
        a == Len(SelectSeq(fs, LAMBDA x : AboveFilter(m, x)))
    IN  [mean |-> m, above |-> a, below |-> b]

Calculate ==
    /\ pc = "calc"
    /\ results' = <<calculate_results(measurements)>>
    /\ pc' = "write"
    /\ UNCHANGED <<input, pos, measurements, out, wfail, exit>>

\* ------------------------------------------------------ write_output
\* One write!(writer, fmt, arg): the format string and its argument (Display
\* of an f64 or a usize is the standard library's; it is not expanded here).
NoArg == [k |-> "none", n |-> 0, d |-> 1]
WriteCall(fmt, arg) == [fmt |-> fmt, arg |-> arg]

\* Mutant: the Below line prints above and the Above line prints below.
WritesSwapped(r) ==
    IF is_nan(r.mean)
    THEN << WriteCall("No measurements provided.\n", NoArg) >>
    ELSE << WriteCall("Mean rainfall: {} cm\n", r.mean),
            WriteCall("Below count:   {}\n", FromUsize(r.above)),
            WriteCall("Above count:   {}\n", FromUsize(r.below)) >>

\* Mutant: a mean of 0.0 is taken for "no mean" too.
WritesNoDataOnZero(r) ==
    IF is_nan(r.mean) \/ r.mean = Zero
    THEN << WriteCall("No measurements provided.\n", NoArg) >>
    ELSE << WriteCall("Mean rainfall: {} cm\n", r.mean),
            WriteCall("Below count:   {}\n", FromUsize(r.below)),
            WriteCall("Above count:   {}\n", FromUsize(r.above)) >>

\* The write! calls write_output makes for r, in order.
Writes(r) ==
    IF is_nan(r.mean)
    THEN << WriteCall("No measurements provided.\n", NoArg) >>
    ELSE << WriteCall("Mean rainfall: {} cm\n", r.mean),
            WriteCall("Below count:   {}\n", FromUsize(r.below)),
            WriteCall("Above count:   {}\n", FromUsize(r.above)) >>

\* write_output runs: every write! succeeds and main returns (exit status
\* 0), or the (k+1)-th write! returns Err and unwrap() panics (exit status
\* 101) with the first k on stdout.
WriteOutput ==
    /\ pc = "write"
    /\ LET ws == Writes(results[1])
       IN  \E k \in 0..Len(ws) :
               /\ out' = SubSeq(ws, 1, k)
               /\ wfail' = (k < Len(ws))
               /\ pc' = IF k < Len(ws) THEN "panicked" ELSE "done"
               /\ exit' = IF k < Len(ws) THEN <<101>> ELSE <<0>>
    /\ UNCHANGED <<input, pos, measurements, results>>

\* --------------------------------------------------------------- main
Next ==
    \/ ReadLine
    \/ ReadTerminator
    \/ ReadErr
    \/ ReadEof
    \/ Calculate
    \/ WriteOutput

Spec == Init /\ [][Next]_vars

Terminated == pc \in {"done", "panicked"}

\* ------------------------------------------------ what the claims name
Min(a, b) == IF a < b THEN a ELSE b

\* Index of the first line whose text is "999"; Len(s) + 1 when there is none.
FirstTerminator(s) ==
    IF \E i \in 1..Len(s) : s[i].ok /\ s[i].line = Terminator
    THEN CHOOSE i \in 1..Len(s) :
             /\ s[i].ok /\ s[i].line = Terminator
             /\ \A j \in 1..(i - 1) : ~(s[j].ok /\ s[j].line = Terminator)
    ELSE Len(s) + 1

\* A line that is one numeric literal with a value >= 0.
ValidLine(item) ==
    /\ item.ok
    /\ ParseF64(item.line).ok
    /\ Le(Zero, ParseF64(item.line).val)

RECURSIVE KeptValues(_, _)
\* The parsed values of the valid lines among the first n items of s, in order.
KeptValues(s, n) ==
    IF n = 0 THEN <<>>
    ELSE KeptValues(s, n - 1)
             \o (IF ValidLine(s[n]) THEN <<ParseF64(s[n].line).val>> ELSE <<>>)

RECURSIVE KeptTotal(_, _)
\* fs[1] + ... + fs[n]
KeptTotal(fs, n) == IF n = 0 THEN Zero ELSE Add(KeptTotal(fs, n - 1), fs[n])

\* The stream is a sequence of lines: no read of it fails.
IsLineSequence(s) == \A i \in 1..Len(s) : s[i].ok

\* A read has failed.
ReadFailed == \E i \in 1..pos : ~input[i].ok

ReaderReturned == pc # "read"

NoDataOutput == << [fmt |-> "No measurements provided.\n", arg |-> NoArg] >>

\* C1: read_measurements returns exactly the parsed values, in input order,
\* of the lines before the first "999" that are one numeric literal with a
\* value >= 0; every other line is dropped and changes nothing around it.
\* While it runs, its vector is that of the lines consumed so far.  (A stream
\* in which a read fails before the loop ends is not a sequence of lines.)
C1_ReaderOutput ==
    LET stop == FirstTerminator(input)
    IN  /\ measurements = KeptValues(input, Min(pos, stop - 1))
        /\ (ReaderReturned /\ ~ReadFailed)
               => measurements = KeptValues(input, stop - 1)

\* A valid line, a noise line and a valid line were read: both values are
\* kept, in order.
C1_Witness ==
    /\ ReaderReturned
    /\ Len(input) = 3
    /\ IsLineSequence(input)
    /\ ValidLine(input[1]) /\ ~ValidLine(input[2]) /\ ValidLine(input[3])
    /\ FirstTerminator(input) > 3
    /\ Len(measurements) = 2
    /\ measurements[1] # measurements[2]

\* C2: the first line whose text is "999" stops the loop: reading never goes
\* past it, and it and the later lines add nothing.  A line that parses to
\* 999 under another spelling is appended as a measurement and the loop goes
\* on: with no read failure the loop ends only at the text "999" or at the end
\* of the stream.
C2_TerminatorIsText ==
    LET stop == FirstTerminator(input)
    IN  /\ pos <= stop
        /\ (stop <= Len(input) /\ pos = stop)
               => /\ ReaderReturned
                  /\ measurements = KeptValues(input, stop - 1)
        /\ (ReaderReturned /\ ~ReadFailed) => pos = Min(stop, Len(input))
        /\ \A i \in 1..pos :
               ( /\ \A j \in 1..i : input[j].ok
                 /\ input[i].line # Terminator
                 /\ ParseF64(input[i].line) = ParseOk(Fin(999, 1)) )
               => /\ Len(KeptValues(input, i)) <= Len(measurements)
                  /\ measurements[Len(KeptValues(input, i))] = Fin(999, 1)
                  /\ (pos = i /\ i < Len(input)) => ~ReaderReturned

\* "9.99e2", then "999", then a valid line: 999 is kept, the last line is not.
C2_Witness ==
    /\ ReaderReturned
    /\ Len(input) = 3
    /\ IsLineSequence(input)
    /\ input[1].line # Terminator
    /\ ParseF64(input[1].line) = ParseOk(Fin(999, 1))
    /\ input[2].line = Terminator
    /\ ValidLine(input[3])
    /\ measurements = <<Fin(999, 1)>>
    /\ pos = 2

C4_CountsBounded ==
    results # <<>> =>
        LET fs == measurements
            r == results[1]
        IN  /\ r.below + r.above <= Len(fs)
            /\ (\E i \in 1..Len(fs) : fs[i] = r.mean)
                   => r.below + r.above < Len(fs)
            /\ \A i \in 1..Len(fs) :
                   ~(BelowFilter(r.mean, fs[i]) /\ AboveFilter(r.mean, fs[i]))

\* A measurement equals the mean while others are counted.
C4_Witness ==
    /\ results # <<>>
    /\ \E i \in 1..Len(measurements) : measurements[i] = results[1].mean
    /\ results[1].below > 0
    /\ results[1].above > 0

\* C5: for the empty sequence sum is 0, mean is NaN, below = 0 and above = 0.
C5_EmptySequence ==
    (results # <<>> /\ measurements = <<>>) =>
        /\ sum(measurements) = Zero
        /\ is_nan(results[1].mean)
        /\ results[1].below = 0
        /\ results[1].above = 0

\* Lines were read, none was a measurement, and the results were computed.
C5_Witness ==
    /\ results # <<>>
    /\ measurements = <<>>
    /\ pos = MaxLines
    /\ is_nan(results[1].mean)

\* C6: when write_output returns, stdout holds exactly the one line "No
\* measurements provided." for an undefined mean, and otherwise exactly the
\* three lines Mean rainfall, Below count, Above count, in that order, the
\* Below line carrying below and the Above line carrying above.  If a write
\* fails, what was written is a proper prefix of that.
C6_ReportLines ==
    LET r == results[1]
        report == << [fmt |-> "Mean rainfall: {} cm\n", arg |-> r.mean],
                     [fmt |-> "Below count:   {}\n", arg |-> Fin(r.below, 1)],
                     [fmt |-> "Above count:   {}\n", arg |-> Fin(r.above, 1)] >>
        want == IF r.mean.k = "nan" THEN NoDataOutput ELSE report
    IN  /\ pc = "done" => out = want
        /\ pc = "panicked" => /\ Len(out) < Len(want)
                              /\ out = SubSeq(want, 1, Len(out))

\* A three-line report whose two counts differ.
C6_Witness ==
    /\ pc = "done"
    /\ Len(out) = 3
    /\ results[1].below # results[1].above
    /\ out[2].arg = Fin(results[1].below, 1)

\* C7: a failed read aborts the run: nothing is reported and the exit status
\* is not 0.
C7_ReadFailureAborts ==
    ReadFailed => /\ out = <<>>
                  /\ exit # <<0>>
                  /\ pc # "done"

\* C8: every element of read_measurements' vector is finite and >= 0.
C8_MeasurementsFinite ==
    \A i \in 1..Len(measurements) :
        IsFinite(measurements[i]) /\ Le(Zero, measurements[i])

\* C9: the stages run in order: nothing is written before reading has
\* stopped and the results are computed, no line is read once computing or
\* writing has begun, and stdout is written in one go, at the end.
C9_StagesInOrder ==
    /\ [](/\ results # <<>> => pc \notin {"read", "calc"}
          /\ out # <<>> => (Terminated /\ results # <<>>)
          /\ pc = "read" => exit = <<>>)
    /\ [][ /\ (pos' # pos \/ measurements' # measurements)
                  => (pc = "read" /\ results = <<>> /\ out = <<>>)
           /\ results' # results => (pc = "calc" /\ out = <<>>)
           /\ out' # out => (pc = "write" /\ out = <<>> /\ Terminated')
           /\ Terminated => (pc' = pc /\ out' = out) ]_vars

\* A run that read every line of a full stream and then wrote its report.
C9_Witness ==
    /\ pc = "done"
    /\ pos = MaxLines
    /\ measurements # <<>>
    /\ Len(out) = 3

\* C10: with no read or write failure the run ends normally (exit status 0),
\* having written "No measurements provided." exactly when no line before
\* the terminator or the end of the stream is a valid measurement, and
\* otherwise the three-line report of a defined mean.
C10_NoDataIffNoMeasurement ==
    (Terminated /\ ~ReadFailed /\ ~wfail) =>
        LET kept == KeptValues(input, FirstTerminator(input) - 1)
        IN  /\ pc = "done"
            /\ exit = <<0>>
            /\ (out = NoDataOutput) <=> (kept = <<>>)
            /\ kept # <<>> => /\ ~is_nan(results[1].mean)
                              /\ Len(out) = 3
                              /\ out[1] = [fmt |-> "Mean rainfall: {} cm\n",
                                           arg |-> results[1].mean]

\* "999" first, a valid line after it: the message is written, exit status 0.
C10_Witness ==
    /\ pc = "done"
    /\ Len(input) >= 2
    /\ input[1] = OkLine(Terminator)
    /\ ValidLine(input[2])
    /\ out = NoDataOutput
    /\ exit = <<0>>

====
